---- MODULE Spec2Model ----
(***************************************************************************)
(* Model of authentik/outposts/api/outpost_service_connections.py:         *)
(* the service-connection API views (generic, Docker, Kubernetes), the     *)
(* kubeconfig validator, the `types` listing and the `state` health query. *)
(***************************************************************************)
EXTENDS Integers, Sequences, FiniteSets, TLC

\* ------------------------------------------------------------------ bounds
\* Number of primary keys the catalogue can hand out.
MaxId == 2
\* Number of health queries that can be in flight at once.
MaxQueries == 2
\* Number of fields one PATCH request submits at most.
MaxPatchFields == 2

Ids == 1..MaxId
Queries == 1..MaxQueries

VARIABLES
    db,         \* the persisted connections: Ids -> row or NoRow
    classes,    \* the model classes currently defined below OutpostServiceConnection
    created,    \* history: the class each persisted row was created as
    resp,       \* the response of the most recent CRUD / types request
    queries     \* the health queries (the `state` action), one slot per worker

vars == <<db, classes, created, resp, queries>>

\* ------------------------------------------------------------- strings
\* Python strings whose characters matter are sequences of characters.
ascii_uppercase ==
    <<"A","B","C","D","E","F","G","H","I","J","K","L","M",
      "N","O","P","Q","R","S","T","U","V","W","X","Y","Z">>
ascii_lowercase ==
    <<"a","b","c","d","e","f","g","h","i","j","k","l","m",
      "n","o","p","q","r","s","t","u","v","w","x","y","z">>

\* str.lower()
lower(s) ==
    [i \in 1..Len(s) |->
        IF \E j \in 1..Len(ascii_uppercase) : ascii_uppercase[j] = s[i]
        THEN ascii_lowercase[CHOOSE j \in 1..Len(ascii_uppercase) : ascii_uppercase[j] = s[i]]
        ELSE s[i]]

\* str.replace(old, new) for a non-empty old: leftmost, non-overlapping.
RECURSIVE replace(_, _, _)
replace(s, old, new) ==
    IF Len(s) < Len(old) THEN s
    ELSE IF SubSeq(s, 1, Len(old)) = old
         THEN new \o replace(SubSeq(s, Len(old) + 1, Len(s)), old, new)
         ELSE <<s[1]>> \o replace(Tail(s), old, new)

\* the literal "serviceconnection" of get_object_type
serviceconnection ==
    <<"s","e","r","v","i","c","e","c","o","n","n","e","c","t","i","o","n">>

\* ------------------------------------------------------- model classes
OutpostServiceConnection == "OutpostServiceConnection"
DockerServiceConnection == "DockerServiceConnection"
KubernetesServiceConnection == "KubernetesServiceConnection"
\* a variant implementation added by a later module
PodmanServiceConnection == "PodmanServiceConnection"

VariantUniverse ==
    {DockerServiceConnection, KubernetesServiceConnection, PodmanServiceConnection}

\* cls._meta.object_name: the class name, character by character
object_name(cls) ==
    CASE cls = DockerServiceConnection ->
            <<"D","o","c","k","e","r">>
            \o <<"S","e","r","v","i","c","e","C","o","n","n","e","c","t","i","o","n">>
      [] cls = KubernetesServiceConnection ->
            <<"K","u","b","e","r","n","e","t","e","s">>
            \o <<"S","e","r","v","i","c","e","C","o","n","n","e","c","t","i","o","n">>
      [] cls = PodmanServiceConnection ->
            <<"P","o","d","m","a","n">>
            \o <<"S","e","r","v","i","c","e","C","o","n","n","e","c","t","i","o","n">>
      [] OTHER ->
            <<"O","u","t","p","o","s","t">>
            \o <<"S","e","r","v","i","c","e","C","o","n","n","e","c","t","i","o","n">>

\* verbose_name(cls), cls.__doc__ and cls().component of the model classes
verbose_name(cls) ==
    CASE cls = DockerServiceConnection -> "Docker Service-Connection"
      [] cls = KubernetesServiceConnection -> "Kubernetes Service-Connection"
      [] cls = PodmanServiceConnection -> "Podman Service-Connection"
      [] OTHER -> "Outpost Service-Connection"

verbose_name_plural(cls) ==
    CASE cls = DockerServiceConnection -> "Docker Service-Connections"
      [] cls = KubernetesServiceConnection -> "Kubernetes Service-Connections"
      [] cls = PodmanServiceConnection -> "Podman Service-Connections"
      [] OTHER -> "Outpost Service-Connections"

doc(cls) ==
    CASE cls = DockerServiceConnection -> "Service Connection to a Docker endpoint"
      [] cls = KubernetesServiceConnection -> "Service Connection to a Kubernetes cluster"
      [] cls = PodmanServiceConnection -> "Service Connection to a Podman endpoint"
      [] OTHER -> "Connection details for an Outpost Controller"

component(cls) ==
    CASE cls = DockerServiceConnection -> "ak-service-connection-docker-form"
      [] cls = KubernetesServiceConnection -> "ak-service-connection-kubernetes-form"
      [] cls = PodmanServiceConnection -> "ak-service-connection-podman-form"
      [] OTHER -> "NotImplementedError"

\* all_subclasses(OutpostServiceConnection): every class currently defined
\* below the base, the base itself excluded
all_subclasses(defined) == defined \ {OutpostServiceConnection}

\* ------------------------------------------------------------- values
Names == {"n1", "n2"}
Urls == {"unix:///var/run/docker.sock", "https://docker:2376"}
\* certificate key pairs that exist in the credential store
KeyPairs == {"kp1"}
\* values a client can submit for a TLS reference
TlsRefs == {"kp1", "kp-unknown"}

\* kubeconfig documents, by what the kubernetes loader does with them
EmptyKubeconfig == "{}"
KubeConfigs == {EmptyKubeconfig, "wellformed", "malformed", "nonmapping"}

\* Python's None, as a submitted or stored reference
None == "None"

NoRow == [cls |-> "none"]

\* the "Local Kubernetes Cluster" record the outposts app creates by itself
\* when the control plane runs inside a cluster
LocalClusterRow ==
    [cls |-> KubernetesServiceConnection, name |-> "n1", local |-> TRUE,
     kubeconfig |-> EmptyKubeconfig]

IsRow(r) == r.cls # "none"

\* ----------------------------------------------------- views, serializers
ServiceConnectionViewSet == "ServiceConnectionViewSet"
DockerServiceConnectionViewSet == "DockerServiceConnectionViewSet"
KubernetesServiceConnectionViewSet == "KubernetesServiceConnectionViewSet"

ModelViewSets == {DockerServiceConnectionViewSet, KubernetesServiceConnectionViewSet}
ViewSets == ModelViewSets \cup {ServiceConnectionViewSet}

ServiceConnectionSerializer == "ServiceConnectionSerializer"
DockerServiceConnectionSerializer == "DockerServiceConnectionSerializer"
KubernetesServiceConnectionSerializer == "KubernetesServiceConnectionSerializer"

\* queryset.model of each view set
queryset_model(view) ==
    CASE view = DockerServiceConnectionViewSet -> DockerServiceConnection
      [] view = KubernetesServiceConnectionViewSet -> KubernetesServiceConnection
      [] OTHER -> OutpostServiceConnection

serializer_class(view) ==
    CASE view = DockerServiceConnectionViewSet -> DockerServiceConnectionSerializer
      [] view = KubernetesServiceConnectionViewSet -> KubernetesServiceConnectionSerializer
      [] OTHER -> ServiceConnectionSerializer

\* A view set is routed only while its model class is defined.
ViewExists(view, defined) ==
    view = ServiceConnectionViewSet \/ queryset_model(view) \in defined

\* objects.select_subclasses(): each row comes back as an instance of the
\* concrete class it was stored as, with that class's fields
select_subclasses(row) == row

\* the rows a view set's queryset holds, by primary key
queryset(view, rows) ==
    IF view = ServiceConnectionViewSet
    THEN [pk \in {i \in Ids : IsRow(rows[i])} |-> select_subclasses(rows[pk])]
    ELSE [pk \in {i \in Ids : IsRow(rows[i]) /\ rows[i].cls = queryset_model(view)}
            |-> rows[pk]]

\* obj._meta.object_name.lower().replace("serviceconnection", ""), per class
object_type_of ==
    [cls \in VariantUniverse \cup {OutpostServiceConnection} |->
        replace(lower(object_name(cls)), serviceconnection, <<>>)]

\* faulty variant: the class name is not lower-cased before the replace
get_object_type_cased(obj) ==
    replace(object_name(obj.cls), serviceconnection, <<>>)

\* ServiceConnectionSerializer.get_object_type
get_object_type(obj) == object_type_of[obj.cls]

\* Meta.fields of the three serializers, as the representation of obj
to_representation(serializer, pk, obj) ==
    LET base == [pk |-> pk, name |-> obj.name, local |-> obj.local,
                 object_type |-> get_object_type(obj),
                 verbose_name |-> verbose_name(obj.cls),
                 verbose_name_plural |-> verbose_name_plural(obj.cls)]
    IN  CASE serializer = DockerServiceConnectionSerializer ->
                base @@ [url |-> obj.url,
                         tls_verification |-> obj.tls_verification,
                         tls_authentication |-> obj.tls_authentication]
          [] serializer = KubernetesServiceConnectionSerializer ->
                base @@ [kubeconfig |-> obj.kubeconfig]
          [] OTHER -> base

\* ------------------------------------------------------------ validation
\* load_kube_config_from_dict: the loader raises its own ConfigException on
\* a mapping it cannot use, and whatever Python raises on a document that
\* is no mapping at all (membership test on a number)
load_kube_config_from_dict(kubeconfig) ==
    CASE kubeconfig = "wellformed" -> "none"
      [] kubeconfig = "nonmapping" -> "TypeError"
      [] OTHER -> "ConfigException"

\* Serializer.validated_data: set by is_valid() once run_validation has
\* returned; reading it earlier fails DRF's assertion
validated_data(self) ==
    IF self.has_validated_data
    THEN [exc |-> "none", value |-> self.validated]
    ELSE [exc |-> "AssertionError", value |-> <<>>]

NotRun ==
    [ran |-> FALSE, kubeconfig |-> "none", local_given |-> FALSE, local |-> FALSE,
     exc |-> "none", msg |-> "none", loaded |-> FALSE]

Outcome(self, kubeconfig, exc, msg, loaded) ==
    [ran |-> TRUE, kubeconfig |-> kubeconfig,
     local_given |-> "local" \in DOMAIN self.data,
     local |-> IF "local" \in DOMAIN self.data THEN self.data.local ELSE FALSE,
     exc |-> exc, msg |-> msg, loaded |-> loaded]

\* KubernetesServiceConnectionSerializer.validate_kubeconfig
validate_kubeconfig(self, kubeconfig) ==
    IF kubeconfig = EmptyKubeconfig
    THEN LET vd == validated_data(self) IN
         IF vd.exc # "none"
         THEN Outcome(self, kubeconfig, vd.exc, "none", FALSE)
         ELSE IF "local" \notin DOMAIN vd.value
         THEN Outcome(self, kubeconfig, "KeyError", "none", FALSE)
         ELSE IF ~ vd.value.local
         THEN Outcome(self, kubeconfig, "ValidationError",
                      "You can only use an empty kubeconfig when connecting to a local cluster.",
                      FALSE)
         ELSE Outcome(self, kubeconfig, "none", "none", FALSE)
    ELSE LET raised == load_kube_config_from_dict(kubeconfig) IN
         IF raised = "ConfigException"
         THEN Outcome(self, kubeconfig, "ValidationError", "Invalid kubeconfig", TRUE)
         ELSE Outcome(self, kubeconfig, raised, "none", TRUE)

\* get_serializer(instance, data=request.data, partial=partial): a fresh
\* serializer, on which is_valid() has not run yet
get_serializer(view, pk, data, partial) ==
    [cls |-> serializer_class(view), pk |-> pk, data |-> data, partial |-> partial,
     has_validated_data |-> FALSE, validated |-> <<>>]

\* the field validators the model fields bring: name is unique in the
\* catalogue, a TLS reference names an existing key pair or is null
FieldErrors(self, rows) ==
    {f \in DOMAIN self.data :
        \/ /\ f = "name"
           /\ \E i \in Ids : i # self.pk /\ IsRow(rows[i]) /\ rows[i].name = self.data.name
        \/ /\ f \in {"tls_verification", "tls_authentication"}
           /\ self.data[f] \notin KeyPairs \cup {None}}

\* Serializer.run_validation: every submitted field's validators, then its
\* validate_<field> method; ValidationErrors are collected per field, any
\* other exception leaves the serializer at once
run_validation(self, rows) ==
    LET vk == IF /\ self.cls = KubernetesServiceConnectionSerializer
                 /\ "kubeconfig" \in DOMAIN self.data
              THEN validate_kubeconfig(self, self.data.kubeconfig)
              ELSE NotRun
        errors == FieldErrors(self, rows)
                  \cup (IF vk.exc = "ValidationError" THEN {"kubeconfig"} ELSE {})
    IN  IF vk.exc \notin {"none", "ValidationError"}
        THEN [exc |-> vk.exc, errors |-> {}, validator |-> vk]
        ELSE IF errors # {}
        THEN [exc |-> "ValidationError", errors |-> errors, validator |-> vk]
        ELSE [exc |-> "none", errors |-> {}, validator |-> vk]

\* serializer.save(): the instance with the validated fields set
save(instance, data) ==
    [f \in DOMAIN instance |-> IF f \in DOMAIN data THEN data[f] ELSE instance[f]]

\* faulty variant: the row is saved whatever validation said
perform_write_unchecked(rows, pk, row, valid) == [rows EXCEPT ![pk] = row]

\* is_valid(raise_exception=True) stands before perform_create /
\* perform_update: the row is written only when validation raised nothing
perform_write(rows, pk, row, valid) ==
    IF valid THEN [rows EXCEPT ![pk] = row] ELSE rows

\* ------------------------------------------------------------- requests
DockerFields == {"name", "local", "url", "tls_verification", "tls_authentication"}
KubernetesFields == {"name", "local", "kubeconfig"}

\* request bodies: a client leaves tls_authentication null
DockerData ==
    [name : Names, local : BOOLEAN, url : Urls,
     tls_verification : TlsRefs, tls_authentication : {None}]
KubernetesData ==
    [name : Names, local : BOOLEAN, kubeconfig : KubeConfigs]

Restrict(f, S) == [x \in S |-> f[x]]

PatchFields(fields) == {S \in SUBSET fields : Cardinality(S) <= MaxPatchFields}

DockerPatch ==
    {Restrict(d, S) : d \in DockerData, S \in PatchFields(DockerFields)}
KubernetesPatch ==
    {Restrict(d, S) : d \in KubernetesData, S \in PatchFields(KubernetesFields)}

\* PUT and POST submit every field, PATCH any of them
RequestData(view, partial) ==
    CASE view = DockerServiceConnectionViewSet /\ ~ partial -> DockerData
      [] view = DockerServiceConnectionViewSet /\ partial -> DockerPatch
      [] view = KubernetesServiceConnectionViewSet /\ ~ partial -> KubernetesData
      [] OTHER -> KubernetesPatch

NoData == [none |-> TRUE]
NotCreated == "none"

Response(op, view, pk, status, exc, errors, validator, request, obj, data) ==
    [op |-> op, view |-> view, pk |-> pk, status |-> status, exc |-> exc,
     errors |-> errors, validator |-> validator, request |-> request,
     obj |-> obj, data |-> data]

Rejected(op, view, v) ==
    Response(op, view, 0, IF v.exc = "ValidationError" THEN 400 ELSE 500,
             v.exc, v.errors, v.validator, NoData, NoData, NoData)

NotFound(op, view, pk) ==
    Response(op, view, pk, 404, "Http404", {}, NotRun, NoData, NoData, NoData)

\* ModelViewSet.create on the Docker and the Kubernetes view set
create(view, data) ==
    /\ ViewExists(view, classes)
    /\ \E pk \in Ids :
        /\ ~ IsRow(db[pk])
        /\ LET self == get_serializer(view, 0, data, FALSE)
               v == run_validation(self, db)
               row == save([cls |-> queryset_model(view)] @@ data, data)
           IN  /\ db' = perform_write(db, pk, row, v.exc = "none")
               /\ created' = IF db' # db
                             THEN [created EXCEPT ![pk] = queryset_model(view)]
                             ELSE created
               /\ resp' = IF v.exc = "none"
                          THEN Response("create", view, pk, 201, "none", {}, v.validator,
                                        data, row,
                                        to_representation(serializer_class(view), pk, row))
                          ELSE Rejected("create", view, v)
    /\ UNCHANGED <<classes, queries>>

OpName(partial) == IF partial THEN "partial_update" ELSE "update"

\* ModelViewSet.update (PUT, partial = FALSE) and partial_update (PATCH)
update(view, pk, partial) ==
    /\ ViewExists(view, classes)
    /\ IF pk \notin DOMAIN queryset(view, db)
       THEN /\ resp' = NotFound(OpName(partial), view, pk)
            /\ UNCHANGED db
       ELSE \E data \in RequestData(view, partial) :
            LET instance == queryset(view, db)[pk]
                self == get_serializer(view, pk, data, partial)
                v == run_validation(self, db)
                row == save(instance, data)
            IN  /\ db' = perform_write(db, pk, row, v.exc = "none")
                /\ resp' = IF v.exc = "none"
                           THEN Response(OpName(partial), view, pk, 200, "none", {},
                                         v.validator,
                                         IF partial THEN NoData ELSE data, row,
                                         to_representation(serializer_class(view), pk, row))
                           ELSE Rejected(OpName(partial), view, v)
    /\ UNCHANGED <<classes, created, queries>>

\* RetrieveModelMixin.retrieve on any of the three view sets
retrieve(view, pk) ==
    /\ ViewExists(view, classes)
    /\ resp' = IF pk \notin DOMAIN queryset(view, db)
               THEN NotFound("retrieve", view, pk)
               ELSE LET obj == queryset(view, db)[pk] IN
                    Response("retrieve", view, pk, 200, "none", {}, NotRun, NoData, obj,
                             to_representation(serializer_class(view), pk, obj))
    /\ UNCHANGED <<db, classes, created, queries>>

\* DestroyModelMixin.destroy on any of the three view sets
destroy(view, pk) ==
    /\ ViewExists(view, classes)
    /\ IF pk \notin DOMAIN queryset(view, db)
       THEN /\ resp' = NotFound("destroy", view, pk)
            /\ UNCHANGED <<db, created>>
       ELSE /\ db' = [db EXCEPT ![pk] = NoRow]
            /\ created' = [created EXCEPT ![pk] = NotCreated]
            /\ resp' = Response("destroy", view, pk, 204, "none", {}, NotRun,
                                NoData, NoData, NoData)
    /\ UNCHANGED <<classes, queries>>

\* one descriptor of the `types` listing
TypeCreate(subclass) ==
    [name |-> verbose_name(subclass), description |-> doc(subclass),
     component |-> component(subclass)]

\* faulty variant: a hand-kept list of the two variants known today
types_data_listed(subclasses) ==
    <<TypeCreate(DockerServiceConnection), TypeCreate(KubernetesServiceConnection)>>

\* the loop of `types`: one descriptor appended per subclass
RECURSIVE types_data(_)
types_data(subclasses) ==
    IF subclasses = {} THEN <<>>
    ELSE LET subclass == CHOOSE c \in subclasses : TRUE IN
         <<TypeCreate(subclass)>> \o types_data(subclasses \ {subclass})

\* ServiceConnectionViewSet.types
types ==
    /\ resp' = Response("types", ServiceConnectionViewSet, 0, 200, "none", {}, NotRun,
                        NoData, NoData, types_data(all_subclasses(classes)))
    /\ UNCHANGED <<db, classes, created, queries>>

\* A variant implementation is added to, or removed from, the code base;
\* a class goes only when no row of it is left.
AddVariant(cls) ==
    /\ cls \notin classes
    /\ classes' = classes \cup {cls}
    /\ UNCHANGED <<db, created, resp, queries>>

RemoveVariant(cls) ==
    /\ cls \in classes
    /\ \A pk \in Ids : db[pk].cls # cls
    /\ classes' = classes \ {cls}
    /\ UNCHANGED <<db, created, resp, queries>>

\* ------------------------------------------------------------------ Spec
NoResponse ==
    Response("none", "none", 0, 0, "none", {}, NotRun, NoData, NoData, NoData)

IdleQuery == [st |-> "Idle"]

Init ==
    /\ db \in {[pk \in Ids |-> NoRow],
               [pk \in Ids |-> IF pk = 1 THEN LocalClusterRow ELSE NoRow]}
    /\ classes = {DockerServiceConnection, KubernetesServiceConnection}
    /\ created = [pk \in Ids |-> db[pk].cls]
    /\ resp = NoResponse
    /\ queries = [q \in Queries |-> IdleQuery]

\* the CRUD requests of the three view sets
Next ==
    \/ \E view \in ModelViewSets : \E data \in RequestData(view, FALSE) : create(view, data)
    \/ \E view \in ModelViewSets, pk \in Ids : update(view, pk, FALSE)
    \/ \E view \in ModelViewSets, pk \in Ids : update(view, pk, TRUE)
    \/ \E view \in ViewSets, pk \in Ids : retrieve(view, pk)
    \/ \E view \in ViewSets, pk \in Ids : destroy(view, pk)

Spec == Init /\ [][Next]_vars

\* ------------------------------------------------------- health queries
\* what the backend can answer to one probe; a probe that gets no answer
\* ends by the timeout instead
BackendAnswers == {"version", "refused", "auth_failure", "protocol_error"}
Final == {"Healthy", "Unhealthy", "NotFound"}

\* OutpostServiceConnectionState(version, healthy), a dataclass
HealthState(version, healthy) == <<version, healthy>>

\* connection.state: the variant's probe result as a HealthState; every
\* failure of the backend, the timeout included, becomes healthy = False
\* with an empty version
connection_state(answer) ==
    IF answer = "version" THEN HealthState("1.0", TRUE) ELSE HealthState("", FALSE)

\* faulty variant: the result of another finished query on the same connection is
\* handed out again
fetch_state_cached(qs, q, answer) ==
    IF \E o \in Queries \ {q} :
            qs[o].st \in {"Healthy", "Unhealthy"} /\ qs[o].pk = qs[q].pk
    THEN LET o == CHOOSE o \in Queries \ {q} :
                    qs[o].st \in {"Healthy", "Unhealthy"} /\ qs[o].pk = qs[q].pk
         IN  HealthState(qs[o].response.data.version, qs[o].response.data.healthy)
    ELSE connection_state(answer)

\* every call probes afresh: nothing of an earlier or concurrent call is read
fetch_state(qs, q, answer) == connection_state(answer)

\* dataclasses.asdict on a HealthState
asdict(state) == [version |-> state[1], healthy |-> state[2]]

\* faulty variant: an unhealthy backend surfaces as a server error
state_response_raising(health) ==
    IF health[2] THEN [status |-> 200, data |-> asdict(health)]
    ELSE [status |-> 500, data |-> NoData]

\* Response(asdict(connection.state))
state_response(health) == [status |-> 200, data |-> asdict(health)]

\* faulty variant: the lookup never raises Http404
get_object_unchecked(rows, pk) == [found |-> TRUE, obj |-> rows[pk]]

\* self.get_object() of the `state` action: Http404 unless pk is in the
\* view set's queryset
get_object(rows, pk) ==
    IF pk \in DOMAIN queryset(ServiceConnectionViewSet, rows)
    THEN [found |-> TRUE, obj |-> queryset(ServiceConnectionViewSet, rows)[pk]]
    ELSE [found |-> FALSE, obj |-> NoData]

\* ServiceConnectionViewSet.state, up to the call of connection.state
state(q, pk) ==
    /\ queries[q].st \in Final \cup {"Idle"}
    /\ queries' = [queries EXCEPT ![q] =
            IF get_object(db, pk).found
            THEN [st |-> "Unknown", pk |-> pk, probed |-> FALSE, answer |-> "none",
                  response |-> NoData]
            ELSE [st |-> "NotFound", pk |-> pk, probed |-> FALSE, answer |-> "none",
                  response |-> [status |-> 404, data |-> NoData]]]
    /\ UNCHANGED <<db, classes, created, resp>>

\* the probe issues its request to the backend
probe(q) ==
    /\ queries[q].st = "Unknown"
    /\ queries' = [queries EXCEPT ![q].st = "Probing", ![q].probed = TRUE]
    /\ UNCHANGED <<db, classes, created, resp>>

\* connection.state returns and `state` sends its response
finish(q, answer) ==
    LET health == fetch_state(queries, q, answer) IN
    queries' = [queries EXCEPT
        ![q].st = IF health[2] THEN "Healthy" ELSE "Unhealthy",
        ![q].answer = answer,
        ![q].response = state_response(health)]

\* the backend answers the probe
respond(q, answer) ==
    /\ queries[q].st = "Probing"
    /\ finish(q, answer)
    /\ UNCHANGED <<db, classes, created, resp>>

\* faulty variant: the probe has no timeout
timeout_never(q) == FALSE /\ UNCHANGED vars

\* the probe's timeout expires before any answer
timeout(q) ==
    /\ queries[q].st = "Probing"
    /\ finish(q, "timeout")
    /\ UNCHANGED <<db, classes, created, resp>>

\* a catalogue with one connection of each variant
SampleRows ==
    [pk \in Ids |->
        CASE pk = 1 -> LocalClusterRow
          [] pk = 2 -> [cls |-> DockerServiceConnection, name |-> "n2", local |-> FALSE,
                        url |-> "https://docker:2376", tls_verification |-> "kp1",
                        tls_authentication |-> None]
          [] OTHER -> NoRow]

InitHealth ==
    /\ db = SampleRows
    /\ classes = {DockerServiceConnection, KubernetesServiceConnection}
    /\ created = [pk \in Ids |-> db[pk].cls]
    /\ resp = NoResponse
    /\ queries = [q \in Queries |-> IdleQuery]

\* health queries of concurrent workers, while connections get deleted
NextHealth ==
    \/ \E q \in Queries, pk \in Ids : state(q, pk)
    \/ \E q \in Queries : probe(q)
    \/ \E q \in Queries, answer \in BackendAnswers : respond(q, answer)
    \/ \E q \in Queries : timeout(q)
    \/ \E pk \in Ids : destroy(ServiceConnectionViewSet, pk)

SpecHealth == InitHealth /\ [][NextHealth]_vars

\* A worker runs its request on, and the probe's timer runs: a query that
\* can issue its probe does, and a probe left unanswered times out.
FairSpecHealth ==
    /\ SpecHealth
    /\ \A q \in Queries : WF_vars(probe(q)) /\ WF_vars(timeout(q))

\* ------------------------------------------------------- type listing
InitTypes ==
    /\ db \in {[pk \in Ids |-> NoRow], SampleRows}
    /\ classes = {DockerServiceConnection, KubernetesServiceConnection}
    /\ created = [pk \in Ids |-> db[pk].cls]
    /\ resp = NoResponse
    /\ queries = [q \in Queries |-> IdleQuery]

\* the listing, while variants come and go and connections get deleted
NextTypes ==
    \/ types
    \/ \E cls \in VariantUniverse : AddVariant(cls)
    \/ \E cls \in VariantUniverse : RemoveVariant(cls)
    \/ \E view \in ViewSets, pk \in Ids : retrieve(view, pk)
    \/ \E view \in ViewSets, pk \in Ids : destroy(view, pk)

SpecTypes == InitTypes /\ [][NextTypes]_vars

\* =============================================================== claims
Writes == {"create", "update", "partial_update"}

\* C1: validate_kubeconfig decides by the table: an empty kubeconfig with
\* local = false is rejected with a ValidationError, an empty one with
\* local = true is accepted, a well-formed one is accepted, a malformed one
\* is rejected, and an empty one is never handed to the loader.
C1_ValidatorTable ==
    resp.validator.ran =>
        LET v == resp.validator IN
        /\ (v.kubeconfig = EmptyKubeconfig /\ v.local_given /\ ~ v.local)
                => v.exc = "ValidationError"
        /\ (v.kubeconfig = EmptyKubeconfig /\ v.local_given /\ v.local)
                => v.exc = "none"
        /\ v.kubeconfig = "wellformed" => v.exc = "none"
        /\ v.kubeconfig \in {"malformed", "nonmapping"} => v.exc # "none"
        /\ v.kubeconfig = EmptyKubeconfig => ~ v.loaded

\* C2: a non-empty kubeconfig whose loading fails ends in
\* ValidationError("Invalid kubeconfig"), and the validator never ends in
\* an exception of another type.
C2_OnlyValidationError ==
    resp.validator.ran =>
        LET v == resp.validator IN
        /\ v.exc \in {"none", "ValidationError"}
        /\ (v.kubeconfig # EmptyKubeconfig
                /\ load_kube_config_from_dict(v.kubeconfig) # "none")
                => (v.exc = "ValidationError" /\ v.msg = "Invalid kubeconfig")

\* C3: no persisted Kubernetes connection is non-local with an empty
\* kubeconfig.
C3_NonLocalHasKubeconfig ==
    \A pk \in Ids :
        db[pk].cls = KubernetesServiceConnection
            => ~ (~ db[pk].local /\ db[pk].kubeconfig = EmptyKubeconfig)

\* one step of the catalogue, seen from the response it produced
C4_Step ==
    /\ (resp'.op \in Writes /\ resp'.status \notin {200, 201}) => db' = db
    /\ (resp'.op \in Writes /\ db' # db) =>
        /\ resp'.status \in {200, 201}
        /\ resp'.exc = "none"
        /\ \A pk \in Ids : db'[pk] # db[pk] =>
            /\ pk = resp'.pk
            /\ IsRow(db'[pk])
            /\ \A o \in Ids \ {pk} : IsRow(db'[o]) => db'[o].name # db'[pk].name
            /\ db'[pk].cls = DockerServiceConnection
                    => db'[pk].tls_verification \in KeyPairs \cup {None}
            /\ (/\ db'[pk].cls = KubernetesServiceConnection
                /\ (~ IsRow(db[pk]) \/ db'[pk].kubeconfig # db[pk].kubeconfig))
                    => /\ resp'.validator.ran
                       /\ resp'.validator.kubeconfig = db'[pk].kubeconfig
                       /\ resp'.validator.exc = "none"

docker == <<"d","o","c","k","e","r">>
kubernetes == <<"k","u","b","e","r","n","e","t","e","s">>

\* the row a create stored, the object a retrieve returned, and a retrieve
\* that follows the create of the same row
C9_Stored ==
    (resp.op = "create" /\ resp.status = 201) =>
        /\ db[resp.pk] = [cls |-> queryset_model(resp.view)] @@ resp.request
        /\ created[resp.pk] = queryset_model(resp.view)

C9_Retrieved ==
    (resp.op = "retrieve" /\ resp.status = 200 /\ resp.view = ServiceConnectionViewSet) =>
        /\ resp.obj = db[resp.pk]
        /\ resp.obj.cls = created[resp.pk]
        /\ resp.obj.cls # OutpostServiceConnection
        /\ resp.data.pk = resp.pk
        /\ resp.data.name = db[resp.pk].name
        /\ resp.data.local = db[resp.pk].local
        /\ resp.data.object_type =
                (IF created[resp.pk] = DockerServiceConnection THEN docker ELSE kubernetes)

C9_RoundTripStep ==
    (/\ resp.op = "create" /\ resp.status = 201
     /\ resp'.op = "retrieve" /\ resp'.view = ServiceConnectionViewSet
     /\ resp'.pk = resp.pk)
        => /\ resp'.status = 200
           /\ resp'.obj.cls = queryset_model(resp.view)
           /\ \A f \in DOMAIN resp.request : resp'.obj[f] = resp.request[f]
           /\ resp'.data.object_type =
                (IF resp.view = DockerServiceConnectionViewSet THEN docker ELSE kubernetes)

Finished == {"Healthy", "Unhealthy"}

\* C5: whatever the backend does (refuses, fails the authentication,
\* breaks the protocol, never answers), a health query on an existing
\* connection is answered 200 with {healthy, version}, and on a failure
\* with healthy = false and an empty version.
C5_HealthIsTotal ==
    \A q \in Queries : queries[q].st \in Finished =>
        /\ queries[q].response.status = 200
        /\ DOMAIN queries[q].response.data = {"healthy", "version"}
        /\ queries[q].response.data.healthy \in BOOLEAN
        /\ queries[q].answer # "version" =>
                /\ queries[q].st = "Unhealthy"
                /\ queries[q].response.data.healthy = FALSE
                /\ queries[q].response.data.version = ""

\* C5 witness: one query ended by the timeout, another by a failed
\* authentication.
C5_Witness ==
    \E q, o \in Queries :
        /\ queries[q].st = "Unhealthy" /\ queries[q].answer = "timeout"
        /\ queries[o].st = "Unhealthy" /\ queries[o].answer = "auth_failure"

\* how a query leaves Probing
C6_ProbeStep ==
    \A q \in Queries :
        (queries[q].st = "Probing" /\ queries'[q].st # "Probing")
            => /\ queries'[q].st \in Finished
               /\ queries'[q].answer = "timeout" => queries'[q].st = "Unhealthy"

\* C6: a probe that has started ends: from Unknown and from Probing the
\* query reaches Healthy or Unhealthy, a probing query leaves Probing only
\* for one of the two, and a probe the backend never answered ends in
\* Unhealthy.
C6_ProbeEnds ==
    /\ \A q \in Queries : (queries[q].st = "Unknown") ~> (queries[q].st \in Finished)
    /\ \A q \in Queries : (queries[q].st = "Probing") ~> (queries[q].st \in Finished)
    /\ [][C6_ProbeStep]_vars

\* C6 witness: a probe ended by its timeout.
C6_Witness ==
    \E q \in Queries :
        /\ queries[q].st = "Unhealthy"
        /\ queries[q].answer = "timeout"
        /\ queries[q].probed

\* one `types` request
C7_Step ==
    types =>
        /\ Len(resp'.data) = Cardinality(classes')
        /\ \A cls \in classes' :
                Cardinality({i \in 1..Len(resp'.data) :
                    resp'.data[i] = [name |-> verbose_name(cls), description |-> doc(cls),
                                     component |-> component(cls)]}) = 1
        /\ db' = db

\* C7: each `types` request answers with exactly one descriptor
\* {name, description, component} per class defined in the family at that
\* moment, none for an empty family, and changes no persisted connection.
C7_TypesListsFamily == [][C7_Step]_vars

\* C7 witness: the listing shows a variant added after start-up, with
\* connections persisted.
C7_Witness ==
    /\ resp.op = "types"
    /\ Len(resp.data) = Cardinality(VariantUniverse)
    /\ \E i \in 1..Len(resp.data) : resp.data[i].name = verbose_name(PodmanServiceConnection)
    /\ \E pk \in Ids : IsRow(db[pk])

\* the answer a query holds, and how a query starts
C8_State ==
    \A q \in Queries :
        /\ queries[q].st = "NotFound" =>
                /\ queries[q].response.status = 404
                /\ ~ queries[q].probed
                /\ queries[q].answer = "none"
        /\ queries[q].st \in Finished =>
                /\ queries[q].response.status = 200
                /\ DOMAIN queries[q].response.data = {"healthy", "version"}

C8_Step ==
    \A q \in Queries :
        (queries'[q] # queries[q] /\ queries'[q].st \in {"Unknown", "NotFound"})
            => (queries'[q].st = "NotFound" <=> ~ IsRow(db[queries'[q].pk]))

\* C8: a health query whose identifier resolves to no persisted row is
\* answered not-found and never probes; one whose identifier resolves goes
\* on to probe and is answered {healthy, version}.
C8_NotFound == []C8_State /\ [][C8_Step]_vars

\* C8 witness: a query on a deleted connection was answered not-found while
\* another query got its health state.
C8_Witness ==
    \E q, o \in Queries :
        /\ queries[q].st = "NotFound"
        /\ IsRow(SampleRows[queries[q].pk])
        /\ queries[o].st = "Healthy"

\* the result a finished query holds, and the reach of one query step
C10_State ==
    \A q \in Queries : queries[q].st \in Finished =>
        /\ queries[q].response.data.healthy = (queries[q].answer = "version")
        /\ queries[q].response.data.version =
                (IF queries[q].answer = "version" THEN "1.0" ELSE "")

C10_Step ==
    queries' # queries =>
        /\ db' = db
        /\ Cardinality({q \in Queries : queries'[q] # queries[q]}) = 1
        /\ \A q \in Queries :
            (queries'[q] # queries[q] /\ queries[q].st \in Final \cup {"Idle"}) =>
                /\ queries'[q].st \in {"Unknown", "NotFound"}
                /\ ~ queries'[q].probed
                /\ queries'[q].answer = "none"
                /\ queries'[q].st = "Unknown" => queries'[q].response = NoData

\* C10: every query starts at Unknown with nothing carried over, its result
\* is the one its own probe's answer gives, and a step of one query changes
\* neither another query nor a persisted row.
C10_Independent == []C10_State /\ [][C10_Step]_vars

\* C10 witness: two finished queries on the same connection with different
\* results.
C10_Witness ==
    \E q, o \in Queries :
        /\ queries[q].st = "Healthy"
        /\ queries[o].st = "Unhealthy"
        /\ queries[q].pk = queries[o].pk
====
